---------------------------- MODULE Spec2Model ----------------------------
(***************************************************************************)
(* One RFB connection of rfb.go (the later revision of the file, lines     *)
(* 483-1069): the serve goroutine (handshake, then the command loop), the  *)
(* pushFramesLoop goroutine started after ServerInit, and the animateImage *)
(* goroutines started by every SetPixelFormat, with the channels, the two  *)
(* locks and the buffered writer they share (Spec; FairSpec and            *)
(* ReadingClientSpec add the scheduling).  The pixel encoders are also run *)
(* on their own, byte for byte, on one image and one format (EncSpec):     *)
(* pushRGBAScreensThousandsLocked, pushGenericLocked and the pixel loop of *)
(* the earlier revision's pushFrame (lines 331-354).                       *)
(***************************************************************************)
EXTENDS Integers, Sequences, FiniteSets, TLC

(***************************************************************************)
(* Bounds of the model.  The program's request queue holds 128 entries,    *)
(* its frame queue 10, and its screen is 1280 x 720.  MaxAnimators is the  *)
(* number of SetPixelFormat messages a client sends on one connection.     *)
(***************************************************************************)
FbupcCap == 2
FeedCap == 1
MaxAnimators == 2
deskWidth == 2
deskHeight == 1

(***************************************************************************)
(* Program constants.                                                      *)
(***************************************************************************)
authNone == 1
statusOK == 0
encodingRaw == 0
encodingCopyRect == 1
cmdSetPixelFormat == 0
cmdSetEncodings == 2
cmdFramebufferUpdateRequest == 3
cmdKeyEvent == 4
cmdPointerEvent == 5
cmdClientCutText == 6
cmdFramebufferUpdate == 0

\* Strings are sequences of byte values, compared as Go compares strings.
v3 == <<82, 70, 66, 32, 48, 48, 51, 46, 48, 48, 51, 10>>
v7 == <<82, 70, 66, 32, 48, 48, 51, 46, 48, 48, 55, 10>>
v8 == <<82, 70, 66, 32, 48, 48, 51, 46, 48, 48, 56, 10>>
serverName == <<114, 102, 98, 45, 103, 111>>

RECURSIVE StrLess(_, _)
StrLess(a, b) ==
    IF b = <<>> THEN FALSE
    ELSE IF a = <<>> THEN TRUE
    ELSE IF Head(a) # Head(b) THEN Head(a) < Head(b)
    ELSE StrLess(Tail(a), Tail(b))

\* A strict comparison where the code has >=.
StrGT(a, b) == StrLess(b, a)

StrGE(a, b) == ~StrLess(a, b)

\* binary.Write(c.bw, binary.BigEndian, v) for the integer widths used.
U8(n) == <<n % 256>>
U16(n) == <<(n \div 256) % 256, n % 256>>
U32(n) == <<(n \div 16777216) % 256, (n \div 65536) % 256, (n \div 256) % 256, n % 256>>

(***************************************************************************)
(* Inputs the client can send.                                             *)
(***************************************************************************)
ClientVersionLines ==
    { v3, v7, v8,
      <<82, 70, 66, 32, 48, 48, 51, 46, 48, 48, 53, 10>>,   \* "RFB 003.005\n"
      <<82, 70, 66, 32, 48, 48, 52, 46, 48, 48, 48, 10>>,   \* "RFB 004.000\n"
      <<10>> }                                              \* "\n"

ClientSecurityTypes == {0, 1, 2}
ClientSharedFlags == {0, 1}
ClientCommandBytes == {0, 1, 2, 3, 4, 5, 6}

PixelFormat(bpp, depth, be, tc, rmax, gmax, bmax, rs, gs, bs) ==
    [BPP |-> bpp, Depth |-> depth, BigEndian |-> be, TrueColour |-> tc,
     RedMax |-> rmax, GreenMax |-> gmax, BlueMax |-> bmax,
     RedShift |-> rs, GreenShift |-> gs, BlueShift |-> bs]

defaultFormat == PixelFormat(24, 24, 1, 1, 255, 255, 255, 16, 8, 0)

pfThousands == PixelFormat(16, 16, 0, 1, 31, 31, 31, 10, 5, 0)
pfGeneric8  == PixelFormat(8, 8, 0, 1, 31, 31, 31, 0, 0, 0)
pfPalette   == PixelFormat(8, 8, 0, 0, 31, 31, 31, 5, 2, 0)
pfBpp24     == PixelFormat(24, 24, 0, 1, 31, 31, 31, 10, 5, 0)

ClientPixelFormats == {pfThousands, pfGeneric8, pfPalette, pfBpp24}

FrameBufferUpdateRequest(inc, x, y, w, h) ==
    [IncrementalFlag |-> inc, X |-> x, Y |-> y, Width |-> w, Height |-> h]

\* A non-incremental request for a part of the screen and an incremental one
\* for all of it.
ClientUpdateRequests ==
    { FrameBufferUpdateRequest(0, 1, 0, 1, 1),
      FrameBufferUpdateRequest(1, 0, 0, deskWidth, deskHeight) }

noRequest == FrameBufferUpdateRequest(0, 0, 0, 0, 0)

(***************************************************************************)
(* The image of the connection: NewConn makes one RGBA image, and every    *)
(* frame notification carries that same image.                             *)
(***************************************************************************)
theImage == [MinX |-> 0, MinY |-> 0, MaxX |-> deskWidth, MaxY |-> deskHeight,
             isRGBA |-> TRUE]
Dx(im) == im.MaxX - im.MinX
Dy(im) == im.MaxY - im.MinY

Animators == 1 .. MaxAnimators

(***************************************************************************)
(* Pixels.  An *image.RGBA as image.NewRGBA makes it: Pix holds four bytes *)
(* per pixel, row after row, Stride = 4 * width; drawImage writes R, G, B  *)
(* and leaves the alpha byte 0.                                            *)
(***************************************************************************)
NewRGBA(w, h, pix) ==
    [Pix |-> pix, Stride |-> 4 * w,
     MinX |-> 0, MinY |-> 0, MaxX |-> w, MaxY |-> h, isRGBA |-> TRUE]

\* (*image.RGBA).At: the color.RGBA at PixOffset(x, y).
RGBAAt(im, x, y) ==
    LET i == (y - im.MinY) * im.Stride + (x - im.MinX) * 4
    IN  <<im.Pix[i + 1], im.Pix[i + 2], im.Pix[i + 3], im.Pix[i + 4]>>

\* color.RGBA.RGBA(): every 8-bit channel v becomes v | v<<8.
RGBA16(col) == [r |-> col[1] * 257, g |-> col[2] * 257, b |-> col[3] * 257]

RECURSIVE Or(_, _)
Or(a, b) ==
    IF a = 0 THEN b
    ELSE IF b = 0 THEN a
    ELSE (IF a % 2 = 1 \/ b % 2 = 1 THEN 1 ELSE 0) + 2 * Or(a \div 2, b \div 2)

\* v << n in a uint32 and in a uint16: the bits shifted past the width are
\* lost.
Shl32(v, n) ==
    IF n = 0 THEN v
    ELSE IF n >= 32 THEN 0
    ELSE (v % (2 ^ (32 - n))) * (2 ^ n)
Shl16(v, n) == IF n >= 16 THEN 0 ELSE (v * (2 ^ n)) % 65536

\* inRange for max = 0x1f, its only case that returns.
inRange(v, max) == v \div 2048

Reverse(s) == [i \in 1 .. Len(s) |-> s[Len(s) + 1 - i]]

\* binary.Write of v, a uint32, uint16 or uint8 by BPP, in the given order.
PixelBytes(u32, bpp, bigEndian) ==
    LET be == IF bpp = 32 THEN U32(u32)
              ELSE IF bpp = 16 THEN U16(u32 % 65536)
              ELSE U8(u32 % 256)
    IN  IF bigEndian THEN be ELSE Reverse(be)

\* The generic pixel with no byte order of its own: always big-endian.
GenericPixel_BigEndianOnly(col, f) ==
    LET c16 == RGBA16(col)
        u32 == Or(Or(Shl32(inRange(c16.r, f.RedMax), f.RedShift),
                     Shl32(inRange(c16.g, f.GreenMax), f.GreenShift)),
                  Shl32(inRange(c16.b, f.BlueMax), f.BlueShift))
    IN  PixelBytes(u32, f.BPP, TRUE)

\* One pixel of pushGenericLocked.
GenericPixel(col, f) ==
    LET c16 == RGBA16(col)
        u32 == Or(Or(Shl32(inRange(c16.r, f.RedMax), f.RedShift),
                     Shl32(inRange(c16.g, f.GreenMax), f.GreenShift)),
                  Shl32(inRange(c16.b, f.BlueMax), f.BlueShift))
    IN  PixelBytes(u32, f.BPP, f.BigEndian # 0)

\* One pixel of the earlier pushFrame: g16 is taken from b16, and c.w always
\* writes big-endian.
OldPixel(col, f) ==
    LET c16 == RGBA16(col)
        r16 == inRange(c16.r, f.RedMax)
        g16 == inRange(c16.b, f.GreenMax)
        b16 == inRange(c16.b, f.BlueMax)
        u32 == Or(Or(Shl32(r16, f.RedShift), Shl32(g16, f.GreenShift)),
                  Shl32(b16, f.BlueShift))
    IN  PixelBytes(u32, f.BPP, TRUE)

\* v8 & 248
Mask248(b) == b - (b % 8)

\* The fast pixel with the low three bits of red and green left in.
FastPixel_NoMask(col, f) ==
    LET u16 == Or(Or(Shl16(col[1], 7), Shl16(col[2], 2)), col[3] \div 8)
        hb  == u16 \div 256
        lb  == u16 % 256
    IN  IF f.BigEndian # 0 THEN <<hb, lb>> ELSE <<lb, hb>>

\* Four bytes of Pix in pushRGBAScreensThousandsLocked: one pixel.
FastPixel(col, f) ==
    LET u16 == Or(Or(Shl16(Mask248(col[1]), 7), Shl16(Mask248(col[2]), 2)),
                  col[3] \div 8)
        hb  == u16 \div 256
        lb  == u16 % 256
    IN  IF f.BigEndian # 0 THEN <<hb, lb>> ELSE <<lb, hb>>

RECURSIVE Flatten(_)
Flatten(ss) == IF ss = <<>> THEN <<>> ELSE Head(ss) \o Flatten(Tail(ss))

\* pushRGBAScreensThousandsLocked: len(im.Pix)/4 pixels, in the order of Pix.
pushRGBAScreensThousandsLocked(im, f) ==
    Flatten([k \in 1 .. (Len(im.Pix) \div 4) |->
               FastPixel(SubSeq(im.Pix, 4 * k - 3, 4 * k), f)])

\* The pixels of the bounds, row after row, as the two nested loops visit them.
BoundsPixels(im) ==
    [k \in 1 .. (Dx(im) * Dy(im)) |->
        RGBAAt(im, im.MinX + ((k - 1) % Dx(im)), im.MinY + ((k - 1) \div Dx(im)))]

pushGenericLocked(im, f) ==
    Flatten([k \in 1 .. (Dx(im) * Dy(im)) |-> GenericPixel(BoundsPixels(im)[k], f)])

\* The pixel loop of the earlier pushFrame.
pushFrameOld(im, f) ==
    Flatten([k \in 1 .. (Dx(im) * Dy(im)) |-> OldPixel(BoundsPixels(im)[k], f)])

\* Inputs of the encoders: colours drawImage can leave in a pixel and a few
\* more, the formats with 5-bit channels that fit their bitsPerPixel.
EncChannelValues == {0, 9, 255}
EncColours ==
    { <<r, g, b, 0>> : r \in EncChannelValues, g \in EncChannelValues,
                       b \in EncChannelValues }
EncPatternColours == { <<255, 0, 0, 0>>, <<0, 255, 0, 0>>, <<1, 0, 7, 0>>,
                       <<9, 132, 255, 0>> }

RECURSIVE Seqs(_, _)
Seqs(S, n) ==
    IF n = 0 THEN {<<>>}
    ELSE { <<x>> \o t : x \in S, t \in Seqs(S, n - 1) }

EncImages ==
    { NewRGBA(deskWidth, deskHeight, Flatten(cols)) :
        cols \in Seqs(EncPatternColours, deskWidth * deskHeight) }
    \cup
    { NewRGBA(deskWidth, deskHeight,
              Flatten([k \in 1 .. (deskWidth * deskHeight) |-> col])) :
        col \in EncColours }

EncFormats ==
    { PixelFormat(16, 16, 0, 1, 31, 31, 31, 10, 5, 0),
      PixelFormat(16, 16, 1, 1, 31, 31, 31, 10, 5, 0),
      PixelFormat(16, 15, 0, 1, 31, 31, 31, 0, 5, 10),
      PixelFormat(16, 15, 1, 1, 31, 31, 31, 0, 5, 10),
      PixelFormat(32, 24, 0, 1, 31, 31, 31, 16, 8, 0),
      PixelFormat(32, 24, 1, 1, 31, 31, 31, 0, 5, 10) }

VARIABLES
    alive,          \* the server process runs (no unrecovered panic yet)
    spc,            \* where the serve goroutine is
    ver,            \* serve's ver, live until the command loop starts
    hs,             \* what serve has written to and read from the socket in
                    \* the handshake, kept until the command loop starts
    format,         \* c.format
    req,            \* handleUpdateRequest's req
    fbupc,          \* c.fbupc, the buffered requests
    fbupcClosed,    \* close(c.fbupc) has run
    closecClosed,   \* close(c.closec) has run
    connClosed,     \* c.c.Close() has run
    apc,            \* where the pushFramesLoop goroutine is
    ur,             \* pushFrame's ur
    trigger,        \* which select case the arbitrator is serving
    bw,             \* c.bw: what is buffered and not yet flushed
    px,             \* pushGenericLocked's loop position, y*width + x
    fmts,           \* the values of c.format read while encoding the rectangle
    mu,             \* holder of c.mu
    imgLock,        \* holder of the image's mutex
    feed,           \* c.feed, the buffered frame notifications
    anim,           \* where each animateImage goroutine is
    fullSent,       \* a raw full frame has been flushed on this connection
    last,           \* c.last
    li,             \* the arbitrator's li: the frame it is sending
    werr,           \* a write to the socket has failed; c.bw keeps the error
    failure,        \* the panic value serve's deferred function recovers
    wanted,         \* serve's wanted, live until the command loop starts
    redrawn,        \* drawImage has run since the last raw frame was flushed
    encIm,          \* the image handed to the pixel encoders
    encFormat,      \* the format the pixel encoders run under
    encOut          \* what each pixel encoder has written

vars == <<alive, spc, ver, hs, format, req, fbupc, fbupcClosed, closecClosed,
          connClosed, apc, ur, trigger, bw, px, fmts, mu, imgLock, feed, anim,
          fullSent, last, li, werr, failure, redrawn, wanted, encIm, encFormat,
          encOut>>

serveVars == <<spc, ver, hs, format, req>>
closeVars == <<fbupcClosed, closecClosed, connClosed>>
arbVars   == <<apc, ur, trigger, px, fmts, mu, fullSent>>
encVars   == <<encIm, encFormat, encOut>>

emptyBuf == [bytes |-> <<>>, payload |-> 0, by |-> {}]

\* c.w and c.bw.WriteString: append to the buffer, noting the writing goroutine.
Buffered(buf, who, bytes) ==
    [buf EXCEPT !.bytes = @ \o bytes, !.by = @ \cup {who}]

\* Pixel data written to the buffer, counted in bytes.
BufferedPixels(buf, who, n) ==
    [buf EXCEPT !.payload = @ + n, !.by = @ \cup {who}]

Sent(bytes) == [op |-> "write", bytes |-> bytes]
Read(n) == [op |-> "read", n |-> n]

\* A nil *LockableImage, no panic value, and encoders that have not run.
noImage == [MinX |-> 0, MinY |-> 0, MaxX |-> 0, MaxY |-> 0, isRGBA |-> FALSE]
noFailure == <<>>
noByte == 256
notRun == [done |-> FALSE, bytes |-> <<>>]
noOutput == [fast |-> notRun, generic |-> notRun, old |-> notRun]

\* The connection as NewConn makes it.
ConnInit ==
    /\ alive = TRUE
    /\ spc = "start"
    /\ ver = <<>>
    /\ hs = <<>>
    /\ format = PixelFormat(0, 0, 0, 0, 0, 0, 0, 0, 0, 0)
    /\ req = noRequest
    /\ fbupc = <<>>
    /\ fbupcClosed = FALSE
    /\ closecClosed = FALSE
    /\ connClosed = FALSE
    /\ apc = "notStarted"
    /\ ur = noRequest
    /\ trigger = "none"
    /\ bw = emptyBuf
    /\ px = 0
    /\ fmts = {}
    /\ mu = "free"
    /\ imgLock = <<>>
    /\ feed = <<>>
    /\ anim = [a \in Animators |-> "notStarted"]
    /\ fullSent = FALSE
    /\ last = theImage
    /\ li = noImage
    /\ werr = FALSE
    /\ failure = noFailure
    /\ redrawn = FALSE
    /\ wanted = noByte

Init ==
    /\ ConnInit
    /\ encIm = NewRGBA(0, 0, <<>>)
    /\ encFormat = PixelFormat(0, 0, 0, 0, 0, 0, 0, 0, 0, 0)
    /\ encOut = noOutput

(***************************************************************************)
(* serve: the handshake.                                                   *)
(***************************************************************************)

\* failf panics with its message; serve's deferred function is the next to
\* run.
failf(msg, n) ==
    /\ spc' = "recover"
    /\ failure' = <<msg, n>>

ServeWriteVersion ==
    /\ alive /\ spc = "start"
    /\ hs' = Append(hs, Sent(v8))
    /\ spc' = "readVersion"
    /\ UNCHANGED <<encVars, redrawn, wanted, last, li, werr, failure,
                   alive, ver, format, req, fbupc, closeVars, arbVars, bw,
                   imgLock, feed, anim>>

\* The version line is taken as it comes, without the switch on it.
ServeReadVersion_AnyVersion ==
    /\ alive /\ spc = "readVersion"
    /\ \E line \in ClientVersionLines :
        /\ ver' = line
        /\ hs' = Append(hs, Read(Len(line)))
        /\ spc' = "auth"
    /\ UNCHANGED <<encVars, redrawn, wanted, last, li, werr, failure,
                   alive, format, req, fbupc, closeVars, arbVars, bw,
                   imgLock, feed, anim>>

ServeReadVersion ==
    /\ alive /\ spc = "readVersion"
    /\ \E line \in ClientVersionLines :
        /\ ver' = line
        /\ hs' = Append(hs, Read(Len(line)))
        /\ IF line \in {v3, v7, v8}
           THEN spc' = "auth" /\ failure' = failure
           ELSE failf("bogus client-requested security type %q", 0)
    /\ UNCHANGED <<encVars, redrawn, wanted, last, li, werr, 
                   alive, format, req, fbupc, closeVars, arbVars, bw,
                   imgLock, feed, anim>>

ServeAuth ==
    /\ alive /\ spc = "auth"
    /\ IF StrGE(ver, v7)
       THEN /\ hs' = Append(hs, Sent(<<1, 1>>))
            /\ spc' = "readSecurityType"
       ELSE /\ hs' = Append(hs, Sent(U32(authNone)))
            /\ spc' = "securityResult"
    /\ UNCHANGED <<encVars, redrawn, wanted, last, li, werr, failure,
                   alive, ver, format, req, fbupc, closeVars, arbVars, bw,
                   imgLock, feed, anim>>

\* The chosen type is read and not compared with authNone.
ServeReadSecurityType_AnyType ==
    /\ alive /\ spc = "readSecurityType"
    /\ \E b \in ClientSecurityTypes :
        /\ wanted' = b
        /\ hs' = Append(hs, Read(1))
        /\ spc' = "securityResult" /\ failure' = failure
    /\ UNCHANGED <<encVars, redrawn, last, li, werr,
                   alive, ver, format, req, fbupc, closeVars, arbVars, bw,
                   imgLock, feed, anim>>

ServeReadSecurityType ==
    /\ alive /\ spc = "readSecurityType"
    /\ \E b \in ClientSecurityTypes :
        /\ wanted' = b
        /\ hs' = Append(hs, Read(1))
        /\ IF b # authNone
           THEN failf("client wanted auth type %d, not None", b)
           ELSE spc' = "securityResult" /\ failure' = failure
    /\ UNCHANGED <<encVars, redrawn, last, li, werr, 
                   alive, ver, format, req, fbupc, closeVars, arbVars, bw,
                   imgLock, feed, anim>>

ServeSecurityResult ==
    /\ alive /\ spc = "securityResult"
    /\ hs' = IF StrGE(ver, v8) THEN Append(hs, Sent(U32(statusOK))) ELSE hs
    /\ spc' = "clientInit"
    /\ UNCHANGED <<encVars, redrawn, wanted, last, li, werr, failure,
                   alive, ver, format, req, fbupc, closeVars, arbVars, bw,
                   imgLock, feed, anim>>

ServeClientInit ==
    /\ alive /\ spc = "clientInit"
    /\ \E wantShared \in ClientSharedFlags :
        hs' = Append(hs, Read(1))
    /\ format' = defaultFormat
    /\ spc' = "serverInit"
    /\ UNCHANGED <<encVars, redrawn, wanted, last, li, werr, failure,
                   alive, ver, req, fbupc, closeVars, arbVars, bw,
                   imgLock, feed, anim>>

ServerInitBytes(f) ==
    U16(deskWidth) \o U16(deskHeight) \o
    U8(f.BPP) \o U8(f.Depth) \o U8(f.BigEndian) \o U8(f.TrueColour) \o
    U16(f.RedMax) \o U16(f.GreenMax) \o U16(f.BlueMax) \o
    U8(f.RedShift) \o U8(f.GreenShift) \o U8(f.BlueShift) \o
    U8(0) \o U8(0) \o U8(0) \o
    U32(Len(serverName)) \o serverName

\* ServerInit is written and flushed.
ServeServerInit ==
    /\ alive /\ spc = "serverInit"
    /\ hs' = Append(hs, Sent(ServerInitBytes(format)))
    /\ spc' = "startLoop"
    /\ UNCHANGED <<encVars, redrawn, wanted, last, li, werr, failure,
                   alive, ver, format, req, fbupc, closeVars, arbVars, bw,
                   imgLock, feed, anim>>

\* go c.pushFramesLoop(), and serve enters its for loop: the handshake's
\* locals are dead from here on.
ServeStartLoop ==
    /\ alive /\ spc = "startLoop"
    /\ apc' = "select"
    /\ spc' = "loop"
    /\ ver' = <<>>
    /\ hs' = <<>>
    /\ wanted' = noByte
    /\ UNCHANGED <<encVars, redrawn, last, li, werr, failure,
                   alive, format, req, fbupc, closeVars, ur, trigger, px,
                   fmts, mu, fullSent, bw, imgLock, feed, anim>>

\* Any read of the socket can fail (the client is gone): readByte and read
\* call failf.
ServeReadError ==
    /\ alive
    /\ spc \in {"readVersion", "readSecurityType", "clientInit", "loop"}
    /\ failf("reading from client", 0)
    /\ UNCHANGED <<encVars, redrawn, wanted, last, li, werr,
                   alive, ver, hs, format, req, fbupc, closeVars, arbVars, bw,
                   imgLock, feed, anim>>

\* A deferred function that does not call recover(): the panic goes on up the
\* goroutine's stack and ends the process.
ServeRecover_NoRecover ==
    /\ alive /\ spc = "recover"
    /\ alive' = FALSE
    /\ spc' = "panicked"
    /\ UNCHANGED <<encVars, redrawn, wanted, last, li, werr, failure,
                   ver, hs, format, req, fbupc, closeVars, arbVars, bw,
                   imgLock, feed, anim>>

\* serve's deferred calls, last registered first: the function that recovers
\* the panic and logs it, close(c.closec), close(c.fbupc), c.c.Close().
ServeRecover ==
    /\ alive /\ spc = "recover"
    /\ failure' = noFailure
    /\ spc' = "closeClosec"
    /\ UNCHANGED <<encVars, redrawn, wanted, last, li, werr,
                   alive, ver, hs, format, req, fbupc, closeVars, arbVars, bw,
                   imgLock, feed, anim>>

ServeCloseClosec ==
    /\ alive /\ spc = "closeClosec"
    /\ closecClosed' = TRUE
    /\ spc' = "closeFbupc"
    /\ UNCHANGED <<encVars, redrawn, wanted, last, li, werr, failure,
                   alive, ver, hs, format, req, fbupc, fbupcClosed, connClosed,
                   arbVars, bw, imgLock, feed, anim>>

ServeCloseFbupc ==
    /\ alive /\ spc = "closeFbupc"
    /\ fbupcClosed' = TRUE
    /\ spc' = "closeConn"
    /\ UNCHANGED <<encVars, redrawn, wanted, last, li, werr, failure,
                   alive, ver, hs, format, req, fbupc, closecClosed, connClosed,
                   arbVars, bw, imgLock, feed, anim>>

ServeCloseConn ==
    /\ alive /\ spc = "closeConn"
    /\ connClosed' = TRUE
    /\ spc' = "returned"
    /\ UNCHANGED <<encVars, redrawn, wanted, last, li, werr, failure,
                   alive, ver, hs, format, req, fbupc, fbupcClosed, closecClosed,
                   arbVars, bw, imgLock, feed, anim>>

(***************************************************************************)
(* serve: the command loop.  One action per value of the command byte.     *)
(***************************************************************************)
NumAnimators == Cardinality({a \in Animators : anim[a] # "notStarted"})

\* handleSetPixelFormat: the message is read, c.format = pf, go c.animateImage().
handleSetPixelFormat(pf) ==
    /\ format' = pf
    /\ anim' = [anim EXCEPT ![NumAnimators + 1] = "select"]
    /\ UNCHANGED <<encVars, redrawn, wanted, last, li, werr, failure,
                   spc, req>>

\* The request is answered by the serve goroutine itself instead of being
\* handed to the arbitrator.
handleUpdateRequest_Inline(r) ==
    /\ bw' = Buffered(bw, "serve", U8(cmdFramebufferUpdate) \o U8(0) \o U16(0))
    /\ UNCHANGED <<encVars, redrawn, wanted, last, li, werr, failure,
                   spc, req, format, anim>>

\* handleUpdateRequest, up to its last statement: the request is read.
handleUpdateRequest(r) ==
    /\ req' = r
    /\ spc' = "sendRequest"
    /\ UNCHANGED <<encVars, redrawn, wanted, last, li, werr, failure,
                   format, anim, bw>>

ServeSetPixelFormat ==
    /\ alive /\ spc = "loop"
    /\ cmdSetPixelFormat \in ClientCommandBytes
    /\ NumAnimators < MaxAnimators
    /\ \E pf \in ClientPixelFormats : handleSetPixelFormat(pf)
    /\ UNCHANGED <<encVars, redrawn, wanted, last, li, werr, failure,
                   alive, ver, hs, fbupc, closeVars, arbVars, bw, imgLock, feed>>

\* handleSetEncodings reads the list into a local and keeps nothing.
ServeSetEncodings ==
    /\ alive /\ spc = "loop"
    /\ cmdSetEncodings \in ClientCommandBytes
    /\ UNCHANGED vars

\* handleKeyEvent reads the event and logs it.
ServeKeyEvent ==
    /\ alive /\ spc = "loop"
    /\ cmdKeyEvent \in ClientCommandBytes
    /\ UNCHANGED vars

\* handlePointerEvent reads the event and logs it.
ServePointerEvent ==
    /\ alive /\ spc = "loop"
    /\ cmdPointerEvent \in ClientCommandBytes
    /\ UNCHANGED vars

ServeUpdateRequest ==
    /\ alive /\ spc = "loop"
    /\ cmdFramebufferUpdateRequest \in ClientCommandBytes
    /\ \E r \in ClientUpdateRequests : handleUpdateRequest(r)
    /\ UNCHANGED <<encVars, redrawn, wanted, last, li, werr, failure,
                   alive, ver, hs, fbupc, closeVars, arbVars, imgLock, feed>>

\* A send that gives up when the buffer is full (select with a default case).
ServeSendRequest_DropWhenFull ==
    /\ alive /\ spc = "sendRequest"
    /\ fbupc' = IF Len(fbupc) < FbupcCap THEN Append(fbupc, req) ELSE fbupc
    /\ req' = noRequest
    /\ spc' = "loop"
    /\ UNCHANGED <<encVars, redrawn, wanted, last, li, werr, failure,
                   alive, ver, hs, format, closeVars, arbVars, bw, imgLock,
                   feed, anim>>

\* A send that needs the arbitrator waiting in its select (an unbuffered
\* channel).
ServeSendRequest_Rendezvous ==
    /\ alive /\ spc = "sendRequest"
    /\ apc = "select"
    /\ Len(fbupc) < FbupcCap
    /\ fbupc' = Append(fbupc, req)
    /\ req' = noRequest
    /\ spc' = "loop"
    /\ UNCHANGED <<encVars, redrawn, wanted, last, li, werr, failure,
                   alive, ver, hs, format, closeVars, arbVars, bw, imgLock,
                   feed, anim>>

\* c.fbupc <- req: blocks while the buffer is full.
ServeSendRequest ==
    /\ alive /\ spc = "sendRequest"
    /\ Len(fbupc) < FbupcCap
    /\ fbupc' = Append(fbupc, req)
    /\ req' = noRequest
    /\ spc' = "loop"
    /\ UNCHANGED <<encVars, redrawn, wanted, last, li, werr, failure,
                   alive, ver, hs, format, closeVars, arbVars, bw, imgLock,
                   feed, anim>>

\* The default case of the switch: failf.
ServeUnsupported(cmd) ==
    /\ cmd \notin {cmdSetPixelFormat, cmdSetEncodings,
                   cmdFramebufferUpdateRequest, cmdPointerEvent, cmdKeyEvent}
    /\ failf("unsupported command type from client", cmd)

ServeUnsupportedCommand ==
    /\ alive /\ spc = "loop"
    /\ \E cmd \in ClientCommandBytes : ServeUnsupported(cmd)
    /\ UNCHANGED <<encVars, redrawn, wanted, last, li, werr,
                   alive, ver, hs, format, req, fbupc, closeVars, arbVars, bw,
                   imgLock, feed, anim>>

(***************************************************************************)
(* pushFramesLoop, pushFrame, pushImage: the update arbitrator.            *)
(***************************************************************************)
free == <<>>
Arb == <<"arb", 0>>
Anim(a) == <<"anim", a>>

\* A panic in the pushFramesLoop goroutine: nothing recovers it there, and an
\* unrecovered panic ends the process.
arbPanic ==
    /\ apc' = "panicked"
    /\ alive' = FALSE

inRangeOK(max) == max = 31

isScreensThousands(f) ==
    /\ f.BPP = 16 /\ f.Depth = 16 /\ f.TrueColour # 0
    /\ f.RedMax = 31 /\ f.GreenMax = 31 /\ f.BlueMax = 31
    /\ f.RedShift = 10 /\ f.GreenShift = 5 /\ f.BlueShift = 0

\* case ur, ok := <-c.fbupc with ok: pushFrame takes c.mu, reads c.last and
\* branches on ur.incremental().
ArbReceiveRequest ==
    /\ alive /\ apc = "select"
    /\ fbupc # <<>>
    /\ ur' = Head(fbupc)
    /\ fbupc' = Tail(fbupc)
    /\ trigger' = "request"
    /\ mu' = "arb"
    /\ li' = last
    /\ apc' = IF Head(fbupc).IncrementalFlag # 0 THEN "pushFrameIncremental"
              ELSE "pushImage"
    /\ UNCHANGED <<encVars, redrawn, wanted, last, werr, failure,
                   alive, serveVars, closeVars, px, fmts, fullSent, bw, imgLock,
                   feed, anim>>

\* case ur, ok := <-c.fbupc with !ok: the channel is closed and drained.
ArbReceiveClosed ==
    /\ alive /\ apc = "select"
    /\ fbupc = <<>> /\ fbupcClosed
    /\ apc' = "returned"
    /\ UNCHANGED <<encVars, redrawn, wanted, last, li, werr, failure,
                   alive, serveVars, closeVars, fbupc, ur, trigger, px, fmts,
                   mu, fullSent, bw, imgLock, feed, anim>>

\* The frame goes out without c.last being touched.
ArbReceiveFeed_KeepLast ==
    /\ alive /\ apc = "select"
    /\ feed # <<>>
    /\ li' = Head(feed)
    /\ feed' = Tail(feed)
    /\ trigger' = "feed"
    /\ ur' = noRequest
    /\ mu' = mu
    /\ apc' = "pushImage"
    /\ UNCHANGED <<encVars, redrawn, wanted, last, werr, failure,
                   alive, serveVars, closeVars, fbupc, px, fmts, fullSent,
                   bw, imgLock, anim>>

\* case li := <-c.feed, and c.mu.Lock().
ArbReceiveFeed ==
    /\ alive /\ apc = "select"
    /\ feed # <<>>
    /\ li' = Head(feed)
    /\ feed' = Tail(feed)
    /\ trigger' = "feed"
    /\ ur' = noRequest
    /\ mu' = "arb"
    /\ apc' = "setLast"
    /\ UNCHANGED <<encVars, redrawn, wanted, last, werr, failure,
                   alive, serveVars, closeVars, fbupc, px, fmts, fullSent,
                   bw, imgLock, anim>>

\* c.last = li and c.mu.Unlock(); pushImage(li) is next.
ArbSetLast ==
    /\ alive /\ apc = "setLast"
    /\ last' = li
    /\ mu' = "free"
    /\ apc' = "pushImage"
    /\ UNCHANGED <<encVars, redrawn, wanted, li, werr, failure,
                   alive, serveVars, closeVars, fbupc, ur, trigger, px, fmts,
                   fullSent, bw, imgLock, feed, anim>>

CopyRectMessage(im) ==
    U8(cmdFramebufferUpdate) \o U8(0) \o U16(1) \o
    U16(0) \o U16(0) \o U16(Dx(im)) \o U16(Dy(im)) \o
    U32(encodingCopyRect) \o U16(0) \o U16(0)

\* The message announces no rectangle and carries none.
ArbPushFrameIncremental_NoRectangle ==
    /\ alive /\ apc = "pushFrameIncremental"
    /\ imgLock = free
    /\ imgLock' = Arb
    /\ bw' = Buffered(bw, "arb", U8(cmdFramebufferUpdate) \o U8(0) \o U16(0))
    /\ apc' = "flushIncremental"
    /\ UNCHANGED <<encVars, redrawn, wanted, last, li, werr, failure,
                   alive, serveVars, closeVars, fbupc, ur, trigger, px, fmts,
                   mu, fullSent, feed, anim>>

\* pushFrame, incremental: li.Lock() and the ten writes.
ArbPushFrameIncremental ==
    /\ alive /\ apc = "pushFrameIncremental"
    /\ imgLock = free
    /\ imgLock' = Arb
    /\ bw' = Buffered(bw, "arb", CopyRectMessage(li))
    /\ apc' = "flushIncremental"
    /\ UNCHANGED <<encVars, redrawn, wanted, last, li, werr, failure,
                   alive, serveVars, closeVars, fbupc, ur, trigger, px, fmts,
                   mu, fullSent, feed, anim>>

\* c.bw.Flush() hands the buffer to the socket.  The write fails on a socket
\* that serve has closed, and can fail whenever the client is gone; c.bw keeps
\* its first error, and c.flush() drops what Flush returns.
Flush ==
    /\ bw' = emptyBuf
    /\ IF werr \/ connClosed THEN werr' = TRUE ELSE werr' \in BOOLEAN

\* c.flush(), then the deferred li.Unlock() and c.mu.Unlock().
ArbFlushIncremental ==
    /\ alive /\ apc = "flushIncremental"
    /\ Flush
    /\ li' = noImage
    /\ imgLock' = free
    /\ mu' = "free"
    /\ apc' = "select"
    /\ ur' = noRequest
    /\ trigger' = "none"
    /\ UNCHANGED <<encVars, redrawn, wanted, last, failure,
                   alive, serveVars, closeVars, fbupc, px, fmts, fullSent,
                   feed, anim>>

\* pushImage: li.Lock(), the bounds check, the message header.
ArbPushImage ==
    /\ alive /\ apc = "pushImage"
    /\ imgLock = free
    /\ imgLock' = Arb
    /\ fmts' = {}
    /\ px' = 0
    /\ IF li.MinX # 0 \/ li.MinY # 0
       THEN /\ arbPanic
            /\ bw' = bw
       ELSE /\ bw' = Buffered(bw, "arb",
                        U8(cmdFramebufferUpdate) \o U8(0) \o U16(1))
            /\ apc' = "rectangle"
            /\ alive' = alive
    /\ UNCHANGED <<encVars, redrawn, wanted, last, li, werr, failure,
                   serveVars, closeVars, fbupc, ur, trigger, mu, fullSent,
                   feed, anim>>

\* The true-colour check, the rectangle header and the choice of encoder;
\* pushRGBAScreensThousandsLocked writes len(im.Pix)/4 * 2 bytes in one call.
RectangleHeader(im) ==
    U16(0) \o U16(0) \o U16(Dx(im)) \o U16(Dy(im)) \o U32(encodingRaw)

ArbRectangle ==
    /\ alive /\ apc = "rectangle"
    /\ fmts' = fmts \cup {format}
    /\ IF format.TrueColour = 0
       THEN /\ arbPanic
            /\ bw' = bw
       ELSE /\ alive' = alive
            /\ IF li.isRGBA /\ isScreensThousands(format)
               THEN /\ bw' = BufferedPixels(
                                Buffered(bw, "arb", RectangleHeader(li)),
                                "arb", Dx(li) * Dy(li) * 2)
                    /\ apc' = "flush"
               ELSE /\ bw' = Buffered(bw, "arb", RectangleHeader(li))
                    /\ apc' = IF Dx(li) * Dy(li) = 0 THEN "flush"
                              ELSE "pushGeneric"
    /\ UNCHANGED <<encVars, redrawn, wanted, last, li, werr, failure,
                   serveVars, closeVars, fbupc, ur, trigger, px, mu, fullSent,
                   imgLock, feed, anim>>

\* Every pixel written as a uint32, whatever BPP says.
pushGenericPixel_AlwaysUint32(f) ==
    IF ~(inRangeOK(f.RedMax) /\ inRangeOK(f.GreenMax) /\ inRangeOK(f.BlueMax))
       \/ f.BPP \notin {32, 16, 8}
    THEN /\ arbPanic
         /\ UNCHANGED <<bw, px>>
    ELSE /\ bw' = BufferedPixels(bw, "arb", 4)
         /\ px' = px + 1
         /\ apc' = IF px + 1 = Dx(li) * Dy(li) THEN "flush"
                   ELSE "pushGeneric"
         /\ alive' = alive

\* One pixel of pushGenericLocked: inRange on the three maxima, the switch on
\* BPP, binary.Write of a uint32, uint16 or uint8.
pushGenericPixel(f) ==
    IF ~(inRangeOK(f.RedMax) /\ inRangeOK(f.GreenMax) /\ inRangeOK(f.BlueMax))
       \/ f.BPP \notin {32, 16, 8}
    THEN /\ arbPanic
         /\ UNCHANGED <<bw, px>>
    ELSE /\ bw' = BufferedPixels(bw, "arb", f.BPP \div 8)
         /\ px' = px + 1
         /\ apc' = IF px + 1 = Dx(li) * Dy(li) THEN "flush"
                   ELSE "pushGeneric"
         /\ alive' = alive

ArbPushGeneric ==
    /\ alive /\ apc = "pushGeneric"
    /\ fmts' = fmts \cup {format}
    /\ pushGenericPixel(format)
    /\ UNCHANGED <<encVars, redrawn, wanted, last, li, werr, failure,
                   serveVars, closeVars, fbupc, ur, trigger, mu, fullSent,
                   imgLock, feed, anim>>

\* c.flush(), the deferred li.Unlock(), and pushFrame's deferred c.mu.Unlock().
ArbFlush ==
    /\ alive /\ apc = "flush"
    /\ Flush
    /\ li' = noImage
    /\ imgLock' = free
    /\ mu' = "free"
    /\ fullSent' = (fullSent \/ ~werr')
    /\ redrawn' = (redrawn /\ werr')
    /\ apc' = "select"
    /\ ur' = noRequest
    /\ trigger' = "none"
    /\ px' = 0
    /\ fmts' = {}
    /\ UNCHANGED <<encVars, wanted, last, failure,
                   alive, serveVars, closeVars, fbupc, feed, anim>>

(***************************************************************************)
(* animateImage and updateImageFrame: the frame producers.                 *)
(***************************************************************************)
AnimStep(a, from, to) ==
    /\ alive /\ anim[a] = from
    /\ anim' = [anim EXCEPT ![a] = to]

\* updateImageFrame without its c.last.Lock().
AnimTick_NoLock(a) ==
    /\ AnimStep(a, "select", "draw")
    /\ UNCHANGED <<encVars, redrawn, wanted, last, li, werr, failure,
                   alive, serveVars, closeVars, fbupc, arbVars, bw, imgLock, feed>>

\* case <-tick.C, then updateImageFrame's c.last.Lock()
AnimTick(a) ==
    /\ imgLock = free
    /\ AnimStep(a, "select", "draw")
    /\ imgLock' = Anim(a)
    /\ UNCHANGED <<encVars, redrawn, wanted, last, li, werr, failure,
                   alive, serveVars, closeVars, fbupc, arbVars, bw, feed>>

\* case <-c.closec
AnimClosed(a) ==
    /\ closecClosed
    /\ AnimStep(a, "select", "returned")
    /\ UNCHANGED <<encVars, redrawn, wanted, last, li, werr, failure,
                   alive, serveVars, closeVars, fbupc, arbVars, bw, imgLock, feed>>

\* slide++, drawImage, c.last.Unlock()
AnimDraw(a) ==
    /\ AnimStep(a, "draw", "send")
    /\ redrawn' = fullSent
    /\ imgLock' = free
    /\ UNCHANGED <<encVars, wanted, last, li, werr, failure,
                   alive, serveVars, closeVars, fbupc, arbVars, bw, feed>>

\* c.feed <- c.last: blocks while the buffer is full.
AnimSend(a) ==
    /\ Len(feed) < FeedCap
    /\ AnimStep(a, "send", "select")
    /\ feed' = Append(feed, last)
    /\ UNCHANGED <<encVars, redrawn, wanted, last, li, werr, failure,
                   alive, serveVars, closeVars, fbupc, arbVars, bw, imgLock>>

Handshake ==
    \/ ServeWriteVersion
    \/ ServeReadVersion
    \/ ServeAuth
    \/ ServeReadSecurityType
    \/ ServeSecurityResult
    \/ ServeClientInit
    \/ ServeServerInit
    \/ ServeStartLoop

Teardown ==
    \/ ServeReadError
    \/ ServeRecover
    \/ ServeCloseClosec
    \/ ServeCloseFbupc
    \/ ServeCloseConn

Dispatcher ==
    \/ ServeSetPixelFormat
    \/ ServeSetEncodings
    \/ ServeKeyEvent
    \/ ServePointerEvent
    \/ ServeUpdateRequest
    \/ ServeSendRequest
    \/ ServeUnsupportedCommand

Arbitrator ==
    \/ ArbReceiveRequest
    \/ ArbReceiveClosed
    \/ ArbReceiveFeed
    \/ ArbSetLast
    \/ ArbPushFrameIncremental
    \/ ArbFlushIncremental
    \/ ArbPushImage
    \/ ArbRectangle
    \/ ArbPushGeneric
    \/ ArbFlush

Animator(a) ==
    \/ AnimTick(a)
    \/ AnimClosed(a)
    \/ AnimDraw(a)
    \/ AnimSend(a)

Next ==
    \/ Handshake
    \/ Teardown
    \/ Dispatcher
    \/ Arbitrator
    \/ \E a \in Animators : Animator(a)

Spec == Init /\ [][Next]_vars

(***************************************************************************)
(* The pixel encoders on their own: one image and one format, and each     *)
(* encoder run on them once, the fast one only where pushImage chooses it. *)
(***************************************************************************)
connVars == <<alive, spc, ver, hs, format, req, fbupc, fbupcClosed,
              closecClosed, connClosed, apc, ur, trigger, bw, px, fmts, mu,
              imgLock, feed, anim, fullSent, last, li, werr, failure, redrawn,
              wanted>>

EncInit ==
    /\ ConnInit
    /\ encIm \in EncImages
    /\ encFormat \in EncFormats
    /\ encOut = noOutput

EncodeFast ==
    /\ ~encOut.fast.done
    /\ encIm.isRGBA /\ isScreensThousands(encFormat)
    /\ encOut' = [encOut EXCEPT !.fast =
                    [done |-> TRUE,
                     bytes |-> pushRGBAScreensThousandsLocked(encIm, encFormat)]]
    /\ UNCHANGED <<connVars, encIm, encFormat>>

EncodeGeneric ==
    /\ ~encOut.generic.done
    /\ encOut' = [encOut EXCEPT !.generic =
                    [done |-> TRUE, bytes |-> pushGenericLocked(encIm, encFormat)]]
    /\ UNCHANGED <<connVars, encIm, encFormat>>

EncodeOld ==
    /\ ~encOut.old.done
    /\ encOut' = [encOut EXCEPT !.old =
                    [done |-> TRUE, bytes |-> pushFrameOld(encIm, encFormat)]]
    /\ UNCHANGED <<connVars, encIm, encFormat>>

EncNext == EncodeFast \/ EncodeGeneric \/ EncodeOld

EncSpec == EncInit /\ [][EncNext]_vars

(***************************************************************************)
(* Scheduling.  Every goroutine that can run does run; a select chooses    *)
(* among its ready cases at random, so a case that is ready again and      *)
(* again is chosen; a sync.Mutex does not starve a waiter.  Reads depend   *)
(* on the client and have no fairness; writes to the socket are sure to    *)
(* return only once the socket is closed.                                  *)
(***************************************************************************)
ServeDeferred == ServeRecover \/ ServeCloseClosec \/ ServeCloseFbupc \/ ServeCloseConn

ArbSocketWrite ==
    connClosed /\ (ArbRectangle \/ ArbPushGeneric \/ ArbFlush \/ ArbFlushIncremental)

Fairness ==
    /\ WF_vars(ServeDeferred)
    /\ WF_vars(ServeSendRequest)
    /\ SF_vars(ArbReceiveRequest)
    /\ SF_vars(ArbReceiveClosed)
    /\ SF_vars(ArbReceiveFeed)
    /\ WF_vars(ArbSetLast)
    /\ SF_vars(ArbPushImage)
    /\ SF_vars(ArbPushFrameIncremental)
    /\ WF_vars(ArbSocketWrite)
    /\ \A a \in Animators :
        /\ SF_vars(AnimClosed(a))
        /\ WF_vars(AnimDraw(a))
        /\ WF_vars(AnimSend(a))

FairSpec == Spec /\ Fairness

\* A client that keeps reading: no write to the socket blocks for ever.
ArbWrite == ArbRectangle \/ ArbPushGeneric \/ ArbFlush \/ ArbFlushIncremental

ReadingClientSpec == FairSpec /\ WF_vars(ArbWrite)

(***************************************************************************)
(* Properties.                                                             *)
(***************************************************************************)
IsPrefix(s, t) == Len(s) <= Len(t) /\ SubSeq(t, 1, Len(s)) = s

ArbFailed == apc = "panicked"

\* C1: a failure of the update arbitrator while it serves an update (a format
\* with trueColour = 0, a channel maximum other than 31, a bitsPerPixel
\* outside {8, 16, 32}, image bounds not at (0,0)) never ends the server
\* process: the process keeps running.
C1_ArbitratorFailureKeepsProcess == ArbFailed => alive

AcceptedVersions == {v3, v7, v8}

ExpectedHandshake(v) ==
    <<Sent(<<82, 70, 66, 32, 48, 48, 51, 46, 48, 48, 56, 10>>), Read(12)>> \o
    (IF v = v3 THEN <<Sent(<<0, 0, 0, 1>>)>>
     ELSE IF v = v7 THEN <<Sent(<<1, 1>>), Read(1)>>
     ELSE <<Sent(<<1, 1>>), Read(1), Sent(<<0, 0, 0, 0>>)>>) \o
    <<Read(1), Sent(ServerInitBytes(defaultFormat))>>

\* C2: for each accepted client version, what serve writes and reads during
\* the handshake is, in order: the server version, the client version; for
\* 3.3 the 4-byte security type 1 and no choice read, for 3.7 and 3.8 the list
\* (1, 1) and one byte of choice; for 3.8 only the 4-byte SecurityResult OK;
\* then the 1-byte shared flag, and ServerInit last.
C2_HandshakeSequence ==
    /\ ver \in AcceptedVersions => IsPrefix(hs, ExpectedHandshake(ver))
    /\ spc = "startLoop" =>
         ver \in AcceptedVersions /\ hs = ExpectedHandshake(ver)

C2_Witness == spc = "startLoop" /\ ver = v3 /\ Len(hs) = 5

BogusVersion == ver # <<>> /\ ver \notin AcceptedVersions

\* C3: after a version line other than the three accepted ones, serve only
\* runs its deferred closes: nothing but the server version was ever written,
\* the arbitrator is never started, and when serve has returned the socket and
\* the request channel are closed.
C3_BogusVersionTerminates ==
    BogusVersion =>
        /\ spc \in {"recover", "closeClosec", "closeFbupc", "closeConn",
                   "returned"}
        /\ hs = <<Sent(<<82, 70, 66, 32, 48, 48, 51, 46, 48, 48, 56, 10>>),
                  Read(Len(ver))>>
        /\ apc = "notStarted"
        /\ \A a \in Animators : anim[a] = "notStarted"
        /\ spc # "returned" => ENABLED Teardown
        /\ spc = "returned" => connClosed /\ fbupcClosed /\ closecClosed

C3_Witness == BogusVersion /\ spc = "returned" /\ connClosed /\ fbupcClosed


RawUpdateHead ==
    <<0, 0, 0, 1>> \o
    <<0, 0, 0, 0>> \o U16(deskWidth) \o U16(deskHeight) \o <<0, 0, 0, 0>>

CopyRectUpdate ==
    <<0, 0, 0, 1>> \o
    <<0, 0, 0, 0>> \o U16(deskWidth) \o U16(deskHeight) \o <<0, 0, 0, 1>> \o
    <<0, 0, 0, 0>>

SupportedFormat(f) ==
    /\ f.TrueColour # 0
    /\ f.BPP \in {8, 16, 32}
    /\ f.RedMax = 31 /\ f.GreenMax = 31 /\ f.BlueMax = 31

ServingNonIncremental == trigger = "request" /\ ur.IncrementalFlag = 0

\* C4: a non-incremental request, whatever its region, served under one
\* supported format set by SetPixelFormat, is answered by a FramebufferUpdate
\* with one rectangle at (0,0) of the advertised screen size, encoding 0, and
\* width*height*(bitsPerPixel/8) bytes of pixels.
C4_FullFrameForNonIncremental ==
    /\ ServingNonIncremental =>
         apc \in {"pushImage", "rectangle", "pushGeneric", "flush", "panicked"}
    /\ \A f \in ClientPixelFormats :
         (ServingNonIncremental /\ apc = "flush" /\ fmts = {f} /\ SupportedFormat(f))
         => /\ bw.bytes = RawUpdateHead
            /\ bw.payload = deskWidth * deskHeight * (f.BPP \div 8)

C4_Witness ==
    /\ apc = "flush" /\ trigger = "request"
    /\ ur = FrameBufferUpdateRequest(0, 1, 0, 1, 1)
    /\ fmts = {pfGeneric8}
    /\ bw.bytes = RawUpdateHead
    /\ bw.payload = deskWidth * deskHeight

\* C5: what is buffered for the socket is always the beginning of one single
\* FramebufferUpdate, written by the arbitrator alone; a new message is begun
\* only when the previous one has been flushed.
C5_OneUpdateInFlight ==
    /\ bw.by \subseteq {"arb"}
    /\ \/ /\ IsPrefix(bw.bytes, RawUpdateHead)
          /\ bw.payload > 0 => bw.bytes = RawUpdateHead
          /\ bw.payload <= deskWidth * deskHeight * 4
       \/ bw.bytes = CopyRectUpdate /\ bw.payload = 0
    /\ apc \in {"notStarted", "select", "returned", "pushImage",
                "pushFrameIncremental"} => bw = emptyBuf

C5_Witness ==
    /\ apc = "pushGeneric" /\ px = 1 /\ bw.payload > 0 /\ bw.by = {"arb"}
    /\ fbupc # <<>> /\ feed # <<>>

ArbStarted == apc # "notStarted"

\* C6: once the request channel is closed, a started arbitrator eventually
\* returns from pushFramesLoop, whatever was pending in the channel.
C6_ArbitratorExitsAfterClose ==
    (fbupcClosed /\ ArbStarted) ~> (apc = "returned")

\* The same with the arbitrator's unrecovered panic counted as an exit.
ArbitratorExitsOrProcessDies ==
    (fbupcClosed /\ ArbStarted) ~> (apc = "returned" \/ ~alive)

\* C7: a request that has been read is never dropped: it stays in
\* handleUpdateRequest until it is appended to the tail of the request queue,
\* the queue otherwise only loses its head to the arbitrator, and with a full
\* queue the dispatcher stays blocked on the send.
C7_NoRequestDropped ==
    [][ /\ spc = "sendRequest" =>
            \/ spc' = "sendRequest" /\ req' = req
            \/ spc' = "loop" /\ fbupc' = Append(fbupc, req)
        /\ fbupc' # fbupc =>
            \/ spc = "sendRequest" /\ fbupc' = Append(fbupc, req)
            \/ fbupc # <<>> /\ fbupc' = Tail(fbupc) /\ ur' = Head(fbupc)
        /\ (spc = "sendRequest" /\ Len(fbupc) = FbupcCap) =>
            spc' = "sendRequest" /\ req' = req
      ]_vars

C7_Witness ==
    /\ spc = "sendRequest" /\ Len(fbupc) = FbupcCap
    /\ req.IncrementalFlag # fbupc[1].IncrementalFlag

ArbSending == apc \in {"rectangle", "pushGeneric", "flush", "flushIncremental"}

DispatcherCanProceed ==
    /\ spc = "loop" =>
        /\ ENABLED ServeUpdateRequest
        /\ ENABLED ServeSetEncodings
        /\ ENABLED ServeKeyEvent
        /\ ENABLED ServePointerEvent
    /\ spc = "sendRequest" => ENABLED ServeSendRequest

\* C8 as claimed: while the arbitrator is sending, the dispatcher can always
\* read and handle the next client message.
C8_DispatcherNeverBlocked ==
    (alive /\ ArbSending /\ spc \in {"loop", "sendRequest"})
    => DispatcherCanProceed

\* C8 as amended: while the arbitrator is sending, the dispatcher can read and
\* handle the next client message as long as the request queue is not full.
C8_DispatcherBlockedOnlyByFullQueue ==
    (alive /\ ArbSending /\ spc \in {"loop", "sendRequest"}
       /\ ~(spc = "sendRequest" /\ Len(fbupc) = FbupcCap))
    => DispatcherCanProceed

C8_Witness ==
    /\ alive /\ apc = "flush" /\ spc = "sendRequest"
    /\ Len(fbupc) = FbupcCap - 1

ArbEncoding == apc \in {"rectangle", "pushGeneric", "flush"}

\* C9: an encode and a redraw of the frame are never both in progress; the
\* arbitrator holds the frame's lock during its whole encode, up to the flush,
\* and a producer holds it during its whole redraw.
C9_EncodeExcludesRedraw ==
    /\ ~(ArbEncoding /\ \E a \in Animators : anim[a] = "draw")
    /\ ArbEncoding => imgLock = Arb
    /\ \A a \in Animators : anim[a] = "draw" => imgLock = Anim(a)

C9_Witness ==
    /\ apc = "pushGeneric" /\ px = 1 /\ imgLock = Arb
    /\ \E a \in Animators : anim[a] = "select"

\* C10: an incremental request served before any full frame has been sent is
\* answered like a non-incremental one, by the raw full-frame rectangle.
C10_IncrementalBeforeFirstFrame ==
    (trigger = "request" /\ ur.IncrementalFlag # 0 /\ ~fullSent
       /\ apc \in {"flush", "flushIncremental"})
    => (apc = "flush" /\ bw.bytes = RawUpdateHead)

BothEncodersRan == encOut.fast.done /\ encOut.generic.done

\* C11: for an RGBA image with bounds at (0,0) and a format that takes the fast
\* path (16 bpp, depth 16, true colour, maxima 31, shifts 10/5/0, either byte
\* order), pushRGBAScreensThousandsLocked and pushGenericLocked write the same
\* bytes, two for every pixel.
C11_FastEqualsGeneric ==
    BothEncodersRan =>
        /\ encOut.fast.bytes = encOut.generic.bytes
        /\ Len(encOut.fast.bytes) = 2 * Dx(encIm) * Dy(encIm)

C11_Witness ==
    /\ BothEncodersRan
    /\ encFormat.BigEndian # 0
    /\ RGBAAt(encIm, 0, 0) = <<1, 0, 7, 0>>
    /\ RGBAAt(encIm, 1, 0) = <<9, 132, 255, 0>>
    /\ encOut.fast.bytes = <<0, 0, 6, 31>>

RECURSIVE BigEndianValue(_)
BigEndianValue(bytes) ==
    IF bytes = <<>> THEN 0
    ELSE BigEndianValue(SubSeq(bytes, 1, Len(bytes) - 1)) * 256 + bytes[Len(bytes)]

\* What a client reads back from one pixel: the value in the format's byte
\* order, then (pixel >> shift) & max for red, green and blue.
DecodePixel(bytes, f) ==
    LET p == BigEndianValue(IF f.BigEndian # 0 THEN bytes ELSE Reverse(bytes))
    IN  <<(p \div (2 ^ f.RedShift)) % (f.RedMax + 1),
          (p \div (2 ^ f.GreenShift)) % (f.GreenMax + 1),
          (p \div (2 ^ f.BlueShift)) % (f.BlueMax + 1)>>

IsSolid(im) ==
    \A k \in 1 .. (Dx(im) * Dy(im)) : BoundsPixels(im)[k] = BoundsPixels(im)[1]

RoundTrips(out, im, f) ==
    LET n == f.BPP \div 8
    IN  /\ Len(out) = n * Dx(im) * Dy(im)
        /\ \A k \in 1 .. (Dx(im) * Dy(im)) :
             DecodePixel(SubSeq(out, n * (k - 1) + 1, n * k), f)
               = << BoundsPixels(im)[k][1] \div 8,
                    BoundsPixels(im)[k][2] \div 8,
                    BoundsPixels(im)[k][3] \div 8 >>

\* C12: for a solid-colour image and a format with 5-bit channels that fit its
\* bitsPerPixel, the pixels written by the earlier pushFrame loop and those
\* written by pushGenericLocked both decode, in the format's byte order, to
\* (R>>3, G>>3, B>>3).
C12_GenericRoundTrip ==
    IsSolid(encIm) =>
        /\ encOut.generic.done => RoundTrips(encOut.generic.bytes, encIm, encFormat)
        /\ encOut.old.done => RoundTrips(encOut.old.bytes, encIm, encFormat)

\* The same for pushGenericLocked alone.
LaterEncoderRoundTrips ==
    IsSolid(encIm) =>
        (encOut.generic.done => RoundTrips(encOut.generic.bytes, encIm, encFormat))

\* The earlier loop on a colour whose green and blue agree, big-endian.
EarlierEncoderRoundTripsOnGrey ==
    (IsSolid(encIm) /\ encFormat.BigEndian # 0 /\ encOut.old.done
       /\ RGBAAt(encIm, 0, 0)[2] = RGBAAt(encIm, 0, 0)[3])
    => RoundTrips(encOut.old.bytes, encIm, encFormat)

ConnectionEnded ==
    spc \in {"recover", "closeClosec", "closeFbupc", "closeConn", "returned"}

TasksStopped ==
    /\ apc \in {"notStarted", "returned"}
    /\ \A a \in Animators : anim[a] \in {"notStarted", "returned"}

\* C13: after a connection-ending failure the socket gets closed and every
\* background task of the connection stops: the arbitrator has returned and
\* so has every animateImage goroutine (or the whole process has ended).
C13_TeardownStopsAllTasks ==
    ConnectionEnded ~> (~alive \/ (connClosed /\ TasksStopped))

\* The part of it that concerns serve and the arbitrator.
TeardownStopsArbitrator ==
    ConnectionEnded ~>
        (~alive \/ (connClosed /\ apc \in {"notStarted", "returned"}))

\* The arbitrator is serving a non-incremental request or a frame notification.
ServingFullFrame ==
    trigger = "feed" \/ (trigger = "request" /\ ur.IncrementalFlag = 0)

FullFrameStates ==
    /\ (trigger = "feed"
          /\ apc \in {"pushImage", "rectangle", "pushGeneric", "flush"})
       => last = li
    /\ (ServingFullFrame /\ apc \in {"rectangle", "pushGeneric", "flush"})
       => /\ imgLock = Arb
          /\ li = last
          /\ IsPrefix(bw.bytes, RawUpdateHead)
          /\ bw.by = {"arb"}
    /\ (ServingFullFrame /\ apc = "flush")
       => /\ bw.bytes = RawUpdateHead
          /\ px = Dx(li) * Dy(li) \/ bw.payload = 2 * Dx(li) * Dy(li)
    /\ apc = "panicked"
       => /\ ServingFullFrame
          /\ \E f \in fmts : ~SupportedFormat(f)

FullFrameSteps ==
    /\ (ServingFullFrame /\ apc # "select" /\ apc' = "select")
       => (apc = "flush" /\ bw.bytes = RawUpdateHead /\ bw' = emptyBuf)
    /\ (bw.bytes # <<>> /\ bw'.bytes = <<>>)
       => apc \in {"flush", "flushIncremental"}
    /\ (trigger' = "feed" /\ apc # "pushImage" /\ apc' = "pushImage")
       => (apc = "setLast" /\ mu = "arb" /\ last' = li)

C15_OneFormatPerRectangle ==
    apc \in {"rectangle", "pushGeneric", "flush", "panicked"}
    => Cardinality(fmts) <= 1

\* C16: whenever the arbitrator writes to or flushes the socket it holds at
\* most the frame's lock: c.mu has been released after taking the reference.
C16_ReferenceLockFreeWhileSending ==
    ArbSending => mu # "arb"

\* The steps of a producer that read c.last: c.last.Lock(), c.last.Img and
\* c.last.Unlock(), c.feed <- c.last.
AnimAccessesLast(a) == AnimTick(a) \/ AnimDraw(a) \/ AnimSend(a)

\* C17: c.last is read and written under c.mu only: while the arbitrator is
\* inside c.mu.Lock() ... c.mu.Unlock() around c.last = li, no producer can be
\* at a statement that reads c.last.
C17_ReferenceAccessUnderLock ==
    apc = "setLast" =>
        /\ mu = "arb"
        /\ \A a \in Animators : ~ENABLED AnimAccessesLast(a)

\* C18: once the request channel is closed the arbitrator leaves its select
\* only to return: it starts no update for a request or a notification that
\* was still queued.
C18_NoUpdateAfterClose ==
    [][ (fbupcClosed /\ apc = "select" /\ apc' # "select")
        => apc' = "returned" ]_vars

\* C19: a failed write or flush ends the connection by itself: with no read
\* error and no other failure in serve, the arbitrator starts no further
\* update once a write to the socket has failed.
C19_WriteErrorEndsConnection ==
    [][ (werr /\ ~ConnectionEnded /\ apc = "select") => apc' = "select" ]_vars

HandledCommands ==
    {cmdSetPixelFormat, cmdSetEncodings, cmdFramebufferUpdateRequest,
     cmdKeyEvent, cmdPointerEvent}

UnsupportedCommandFailure ==
    failure # noFailure /\ failure[1] = "unsupported command type from client"

\* C20: a command byte outside {0, 2, 3, 4, 5} makes serve fail; the failure is
\* recovered in serve's own deferred function and leaves the process running;
\* from the failure on the dispatcher handles no message, the deferred closes
\* run, and when serve has returned the socket, the request channel and closec
\* are closed.
C20_UnsupportedCommandEndsConnection ==
    /\ [](/\ failure # noFailure => spc = "recover"
          /\ UnsupportedCommandFailure =>
               failure[2] \in ClientCommandBytes \ HandledCommands
          /\ ConnectionEnded => ~ENABLED Dispatcher
          /\ (ConnectionEnded /\ alive /\ spc # "returned") => ENABLED ServeDeferred
          /\ spc = "returned" => (connClosed /\ fbupcClosed /\ closecClosed))
    /\ [][ /\ (spc = "loop" /\ spc' = "recover") => alive' = alive
           /\ (spc = "recover" /\ spc' # spc) =>
                (alive' = alive /\ spc' = "closeClosec" /\ failure' = noFailure)
         ]_vars

C20_Witness ==
    /\ spc = "recover"
    /\ failure = <<"unsupported command type from client", cmdClientCutText>>
    /\ alive /\ ~connClosed /\ ~fbupcClosed


ServingIncremental == trigger = "request" /\ ur.IncrementalFlag # 0

IncrementalUnchangedFrameReached ==
    /\ ServingIncremental /\ fullSent /\ ~redrawn
    /\ apc = "flushIncremental"

RejectedSecurityType == wanted \notin {noByte, authNone}

\* C22: a client of version 3.7 or 3.8 that chooses a security type other
\* than 1 gets the connection terminated: after the list (1, 1) nothing more
\* is written, neither a SecurityResult nor ServerInit, the arbitrator is
\* never started, and serve closes the socket.
C22_SecurityTypeRejected ==
    RejectedSecurityType =>
        /\ ver \in {v7, v8}
        /\ spc \in {"recover", "closeClosec", "closeFbupc", "closeConn",
                    "returned"}
        /\ hs = <<Sent(<<82, 70, 66, 32, 48, 48, 51, 46, 48, 48, 56, 10>>),
                  Read(12), Sent(<<1, 1>>), Read(1)>>
        /\ bw = emptyBuf
        /\ apc = "notStarted"
        /\ \A a \in Animators : anim[a] = "notStarted"
        /\ spc = "recover" =>
             failure = <<"client wanted auth type %d, not None", wanted>>
        /\ spc # "returned" => ENABLED Teardown
        /\ spc = "returned" => connClosed /\ fbupcClosed /\ closecClosed

C22_Witness ==
    /\ RejectedSecurityType /\ ver = v8 /\ wanted = 2
    /\ spc = "returned" /\ connClosed /\ alive

\* The animateImage goroutines that have been started and have not returned.
Producers == {a \in Animators : anim[a] \notin {"notStarted", "returned"}}

\* A producer appears only in the step that handles a SetPixelFormat.
ProducerStartsWithSetPixelFormat ==
    [][(\E a \in Animators : anim[a] = "notStarted" /\ anim'[a] # "notStarted")
         => (spc = "loop" /\ spc' = "loop" /\ format' \in ClientPixelFormats
               /\ NumAnimators' = NumAnimators + 1)]_vars

\* C23: no producer runs before the client has sent SetPixelFormat, and at
\* most one producer exists at any time, however many SetPixelFormat messages
\* the client sends.
C23_AtMostOneProducer ==
    /\ Producers # {} => (apc # "notStarted" /\ format \in ClientPixelFormats)
    /\ Cardinality(Producers) <= 1

\* Every SetPixelFormat starts one more.
TwoProducersReached ==
    /\ Cardinality(Producers) = 2
    /\ anim[1] = "draw" /\ anim[2] = "send"

\* The connection is open and its arbitrator runs.
ConnectionOpen ==
    alive /\ ~ConnectionEnded /\ apc \notin {"notStarted", "returned"}

\* The arbitrator waits in its select with nothing to receive.
ArbIdle == apc = "select" /\ fbupc = <<>> /\ feed = <<>> /\ ~fbupcClosed

\* The arbitrator can take a step, or the producer whose lock it waits for can.
ArbProgress ==
    \/ ENABLED Arbitrator
    \/ \E a \in Animators : imgLock = Anim(a) /\ ENABLED AnimDraw(a)

\* No task waits for a task that cannot move: the dispatcher on a full request
\* queue and a producer on a full frame queue wait for the arbitrator, the
\* arbitrator waits for a frame's lock only while a producer draws, and a
\* producer waits for that lock only while its holder can release it.
NoWaitCycle ==
    ConnectionOpen =>
        /\ ~ArbIdle => ArbProgress
        /\ mu = "arb" => apc # "select"
        /\ spc = "sendRequest" => (ENABLED ServeSendRequest \/ ArbProgress)
        /\ \A a \in Animators :
            /\ anim[a] = "send" => (ENABLED AnimSend(a) \/ ArbProgress)
            /\ anim[a] = "select" =>
                 \/ ENABLED AnimTick(a)
                 \/ imgLock = Arb /\ ENABLED Arbitrator
                 \/ \E b \in Animators : imgLock = Anim(b) /\ ENABLED AnimDraw(b)
            /\ anim[a] = "draw" => ENABLED AnimDraw(a)

\* A request waits in the queue; the arbitrator is at its select with a
\* request to receive; the answer to a request is written and about to be
\* flushed.
RequestQueued == ConnectionOpen /\ fbupc # <<>>
RequestAtSelect == RequestQueued /\ apc = "select"
AnswerReady == trigger = "request" /\ apc \in {"flush", "flushIncremental"}

\* C24: while the connection is open and the client keeps reading, the
\* dispatcher, the arbitrator and the producers never wait on each other in
\* a cycle through c.mu, the frame's lock, the request queue and the frame
\* queue, and every queued update request is eventually answered.
C24_NoDeadlockRequestsAnswered ==
    /\ []NoWaitCycle
    /\ RequestQueued ~> (RequestAtSelect \/ ConnectionEnded)
    /\ RequestAtSelect ~> (AnswerReady \/ ConnectionEnded)

\* The same, with the end of the process counted as the end of the
\* connection.
RequestsAnsweredOrProcessDies ==
    /\ RequestQueued ~> (RequestAtSelect \/ ConnectionEnded \/ ~alive)
    /\ RequestAtSelect ~> (AnswerReady \/ ConnectionEnded \/ ~alive)

\* A full request queue, a full frame queue and a held frame lock at once.
AllQueuesFullReached ==
    /\ ConnectionOpen
    /\ spc = "sendRequest" /\ Len(fbupc) = FbupcCap
    /\ Len(feed) = FeedCap /\ \E a \in Animators : anim[a] = "send"
    /\ apc = "pushImage" /\ \E b \in Animators : imgLock = Anim(b)

=============================================================================
